---- MODULE Spec2Model ----
(***************************************************************************)
(* Model of the ForkFlix progressive multi-modal extraction pipeline:      *)
(* MultiModalAIService.extract_progressive and the services it drives      *)
(* (text extractor, video processor, audio processor, AI fusion, Mistral   *)
(* refinement).                                                            *)
(*                                                                         *)
(* Conventions                                                             *)
(*  - confidences are fixed-point thousandths (0.5 is 500);                *)
(*  - a Python dict is a record; d.get(k, default) is Get(d, k, default);  *)
(*  - Python None is NoneInt for integer-valued fields and NoneStr for     *)
(*    string-valued ones (TLC cannot compare values of different types);   *)
(*  - a call that lets an exception escape returns the record Raised.      *)
(***************************************************************************)
EXTENDS Integers, Sequences, FiniteSets, TLC

(* ---------------------------------------------------------------------- *)
(* Bounds of the model                                                    *)
(* ---------------------------------------------------------------------- *)
MaxMentions == 2

(* ---------------------------------------------------------------------- *)
(* Python helpers                                                         *)
(* ---------------------------------------------------------------------- *)
NoneInt == -1
NoneStr == "None"
Raised == [raised |-> TRUE]

IsRaised(r) == "raised" \in DOMAIN r

Get(d, k, default) == IF k \in DOMAIN d THEN d[k] ELSE default

Min(a, b) == IF a <= b THEN a ELSE b

Max(a, b) == IF a >= b THEN a ELSE b

Prefix(s, n) == SubSeq(s, 1, Min(n, Len(s)))

(* ---------------------------------------------------------------------- *)
(* Text of a post (description + caption), abstracted to what the text     *)
(* extractor reads from it: the time mentions "<n> <unit>" in order of     *)
(* appearance, the vocabulary words occurring in it, the ingredients the   *)
(* keyword scan finds and its length.                                      *)
(* ---------------------------------------------------------------------- *)
MinuteUnits == {"minutes", "mins"}
HourUnits == {"hours", "hrs"}
TimeMentions ==
    {[val |-> 3, unit |-> "minutes"], [val |-> 3, unit |-> "hours"]}

Keywords == {"roast", "braise"}

SeqsUpTo(S, n) == UNION {[1..k -> S] : k \in 0..n}

FirstIn(s, units) ==
    LET idx == {i \in 1..Len(s) : s[i].unit \in units}
    IN  s[CHOOSE i \in idx : \A j \in idx : i <= j]

HasIn(s, units) == \E i \in 1..Len(s) : s[i].unit \in units

complexity_indicators(word) ==
    CASE word = "quick" -> -10
      [] word = "fast" -> -10
      [] word = "instant" -> -15
      [] word = "slow" -> 30
      [] word = "simmer" -> 20
      [] word = "braise" -> 45
      [] word = "roast" -> 60
      [] word = "marinade" -> 15
      [] word = "chill" -> 10
      [] word = "rest" -> 5
      [] OTHER -> 0

RECURSIVE SumMods(_)
SumMods(ws) ==
    IF ws = {} THEN 0
    ELSE LET w == CHOOSE x \in ws : TRUE
         IN  complexity_indicators(w) + SumMods(ws \ {w})

_estimate_cooking_time_from_complexity(text) ==
    LET base_time == 25 + SumMods(text.words)
    IN  Max(Min(base_time, 240), 5)

(* The first pattern (minutes) wins whenever the text holds a minutes      *)
(* mention; patterns 3-5 of the source only match texts pattern 1 already  *)
(* matches, so they are never the deciding pattern.  'hour' in unit is     *)
(* false for "hrs", so such a value is not multiplied.                     *)
_extract_cooking_time_advanced(text) ==
    IF HasIn(text.mentions, MinuteUnits)
    THEN Min(FirstIn(text.mentions, MinuteUnits).val, 240)
    ELSE IF HasIn(text.mentions, HourUnits)
    THEN LET m == FirstIn(text.mentions, HourUnits)
             time_val == IF m.unit = "hours" THEN m.val * 60 ELSE m.val
         IN  Min(time_val, 240)
    ELSE _estimate_cooking_time_from_complexity(text)

(* The keyword scan (_extract_ingredients_fallback) returns at most 12     *)
(* distinct lower-case names; the generation path delegates to it, so the  *)
(* ingredient list is a function of the text alone.                        *)
ingredient_keywords ==
    <<"chicken", "beef", "pork", "fish", "salmon", "tuna",
      "shrimp", "tofu", "eggs", "cheese", "onion", "garlic">>

IngredientCounts == {0, 7}

_extract_ingredients_fallback(n) == Prefix(ingredient_keywords, Min(n, 12))

TextLengths == {0, 150}

(* The posts of the model: an empty text, texts without a time mention     *)
(* and texts with up to MaxMentions time mentions.                         *)
Texts ==
    {t \in [mentions : SeqsUpTo(TimeMentions, MaxMentions),
            words : {{}, Keywords},
            ningredients : IngredientCounts,
            length : TextLengths] :
        /\ t.length = 0 =>
              (t.mentions = <<>> /\ t.words = {} /\ t.ningredients = 0)
        /\ t.mentions # <<>> => (t.words = {} /\ t.ningredients = 7)}

(* Answers of the zero-shot classification endpoint to the text phase:     *)
(* no usable answer, a label with a numeric score, or a 200 answer whose   *)
(* first score is not a number (JSON null).                                *)
CategoryResponses ==
    {[status |-> "fail", label |-> NoneStr, score |-> NoneInt],
     [status |-> "ok", label |-> "Desserts", score |-> 900],
     [status |-> "ok", label |-> "Main Course", score |-> 400],
     [status |-> "ok", label |-> "Salads", score |-> NoneInt]}

_categorize_recipe_advanced(resp) ==
    IF resp.status = "ok"
    THEN [category |-> resp.label, confidence |-> resp.score]
    ELSE [category |-> "Main Course", confidence |-> 500]

cooking_words ==
    {"recipe", "cook", "bake", "fry", "grill", "roast", "simmer", "boil"}

(* (score + category_confidence) / 2 raises TypeError on a None score.     *)
_calculate_text_confidence_raises(category_confidence) ==
    category_confidence = NoneInt

_calculate_text_confidence(text, ingredients, category_confidence) ==
    LET s0 == 500
        s1 == s0 + (IF text.length > 100 THEN 100 ELSE 0)
        s2 == s1 + (IF text.length > 300 THEN 100 ELSE 0)
        s3 == s2 + (IF Len(ingredients) >= 3 THEN 100 ELSE 0)
        s4 == s3 + (IF Len(ingredients) >= 6 THEN 100 ELSE 0)
        s5 == (s4 + category_confidence) \div 2
        s6 == s5 + (IF text.words \cap cooking_words # {} THEN 100 ELSE 0)
    IN  Min(s6, 900)

advanced_techniques ==
    {"tempering", "emulsify", "clarify", "reduction", "confit",
     "sous vide", "ferment", "cure", "smoke", "braise"}

_determine_difficulty_advanced(ingredients, cooking_time, text) ==
    LET n == Len(ingredients)
        d1 == IF n > 12 THEN 3 ELSE IF n > 8 THEN 2 ELSE IF n > 5 THEN 1 ELSE 0
        d2 == IF cooking_time > 120 THEN 3
              ELSE IF cooking_time > 60 THEN 2
              ELSE IF cooking_time > 30 THEN 1 ELSE 0
        d3 == 2 * Cardinality(text.words \cap advanced_techniques)
        difficulty_score == d1 + d2 + d3
    IN  IF difficulty_score >= 6 THEN "Hard"
        ELSE IF difficulty_score >= 3 THEN "Medium"
        ELSE "Easy"

TextFailureResult ==
    [source |-> "text",
     ingredients |-> <<>>,
     category |-> NoneStr,
     instructions |-> "",
     cookingTime |-> NoneInt,
     difficulty |-> NoneStr,
     confidence |-> 0,
     extractedFields |-> 0]

(* The same computation without the handler around it.                    *)
_extract_from_text_enhanced_unguarded(text, resp) ==
    LET ingredients == _extract_ingredients_fallback(text.ningredients)
        category_result == _categorize_recipe_advanced(resp)
        cooking_time == _extract_cooking_time_advanced(text)
    IN  IF _calculate_text_confidence_raises(category_result.confidence)
        THEN Raised
        ELSE [source |-> "text",
              source_text |-> IF text.length = 0 THEN "" ELSE "caption",
              ingredients |-> ingredients,
              category |-> category_result.category,
              instructions |-> "generated steps",
              cookingTime |-> cooking_time,
              difficulty |->
                  _determine_difficulty_advanced(ingredients, cooking_time, text),
              confidence |->
                  _calculate_text_confidence(text, ingredients,
                                             category_result.confidence),
              extractedFields |-> 7]

(* The five sub-extractions each catch their own errors or cannot fail;    *)
(* what can still throw inside the try block is the confidence             *)
(* computation, and the except branch then returns the empty result.       *)
_extract_from_text_enhanced(text, resp) ==
    LET ingredients == _extract_ingredients_fallback(text.ningredients)
        category_result == _categorize_recipe_advanced(resp)
        cooking_time == _extract_cooking_time_advanced(text)
    IN  IF _calculate_text_confidence_raises(category_result.confidence)
        THEN TextFailureResult
        ELSE [source |-> "text",
              source_text |-> IF text.length = 0 THEN "" ELSE "caption",
              ingredients |-> ingredients,
              category |-> category_result.category,
              instructions |-> "generated steps",
              cookingTime |-> cooking_time,
              difficulty |->
                  _determine_difficulty_advanced(ingredients, cooking_time, text),
              confidence |->
                  _calculate_text_confidence(text, ingredients,
                                             category_result.confidence),
              extractedFields |-> 7]

(* ---------------------------------------------------------------------- *)
(* Video processor: process_instagram_video_for_recipe                    *)
(* ---------------------------------------------------------------------- *)
(* What the steps of one video analysis did: whether yt-dlp left a file,   *)
(* how many frames were read, whether an unguarded step (scene detection,  *)
(* confidence computation) threw, and what the analysis found.             *)
VideoRuns ==
    {[download |-> "none", frames |-> 0, step_raises |-> FALSE,
      ningredients |-> 0, ocr_long |-> FALSE, scene_changes |-> 0, food_frames |-> 0],
     [download |-> "ok", frames |-> 0, step_raises |-> FALSE,
      ningredients |-> 0, ocr_long |-> FALSE, scene_changes |-> 0, food_frames |-> 0],
     [download |-> "ok", frames |-> 3, step_raises |-> TRUE,
      ningredients |-> 2, ocr_long |-> FALSE, scene_changes |-> 0, food_frames |-> 0],
     [download |-> "ok", frames |-> 2, step_raises |-> FALSE,
      ningredients |-> 0, ocr_long |-> FALSE, scene_changes |-> 1, food_frames |-> 0],
     [download |-> "ok", frames |-> 3, step_raises |-> FALSE,
      ningredients |-> 1, ocr_long |-> FALSE, scene_changes |-> 0, food_frames |-> 0],
     [download |-> "ok", frames |-> 12, step_raises |-> FALSE,
      ningredients |-> 4, ocr_long |-> TRUE, scene_changes |-> 2, food_frames |-> 3]}

food_labels == <<"tomato", "onion", "garlic", "cheese">>

_create_empty_result(error_message) ==
    [visualIngredients |-> <<>>,
     ocrText |-> "",
     framesProcessed |-> 0,
     confidence |-> 100,
     processingMethod |-> "failed",
     success |-> FALSE,
     error |-> error_message]

_calculate_video_analysis_confidence(run) ==
    LET c0 == 300
        c1 == c0 + (IF run.ningredients > 0
                    THEN Min(run.ningredients * 50, 200) ELSE 0)
        c2 == c1 + (IF run.ocr_long THEN 150 ELSE 0)
        c3 == c2 + (IF run.frames >= 3 THEN 100 ELSE 0)
        c4 == c3 + (IF run.scene_changes >= 2 THEN 100 ELSE 0)
        c5 == c4 + (IF run.food_frames > 0
                    THEN Min(run.food_frames * 50, 150) ELSE 0)
    IN  Min(c5, 850)

(* The same steps without the handler around them: a step that throws      *)
(* reaches the caller.                                                     *)
process_instagram_video_for_recipe_unguarded(run) ==
    IF run.download = "none"
    THEN _create_empty_result("Video download failed")
    ELSE IF run.frames = 0
    THEN _create_empty_result("Frame extraction failed")
    ELSE IF run.step_raises
    THEN Raised
    ELSE [visualIngredients |-> Prefix(food_labels, run.ningredients),
          ocrText |-> IF run.ocr_long THEN "2 cups flour" ELSE "",
          framesProcessed |-> run.frames,
          confidence |-> _calculate_video_analysis_confidence(run),
          processingMethod |-> "yt-dlp + AI analysis",
          success |-> TRUE]

process_instagram_video_for_recipe(run) ==
    IF run.download = "none"
    THEN _create_empty_result("Video download failed")
    ELSE IF run.frames = 0
    THEN _create_empty_result("Frame extraction failed")
    ELSE IF run.step_raises
    THEN _create_empty_result("Processing error")
    ELSE [visualIngredients |-> Prefix(food_labels, run.ningredients),
          ocrText |-> IF run.ocr_long THEN "2 cups flour" ELSE "",
          framesProcessed |-> run.frames,
          confidence |-> _calculate_video_analysis_confidence(run),
          processingMethod |-> "yt-dlp + AI analysis",
          success |-> TRUE]

(* The temporary files still on disk when the call returns: the download   *)
(* is unlinked only on the way to the success result, so the early return  *)
(* after a failed frame extraction and the except branch leave it.         *)
video_files_left(run) ==
    IF run.download = "none" THEN {}
    ELSE IF run.frames = 0 \/ run.step_raises THEN {"video.mp4"}
    ELSE {}

(* ---------------------------------------------------------------------- *)
(* Audio processor: transcribe_video_audio                                *)
(* ---------------------------------------------------------------------- *)
(* What the steps of one transcription did: whether any extraction method  *)
(* produced an audio file, whether Whisper succeeded, whether a later      *)
(* unguarded step threw, and the measurements the confidence is built on.  *)
AudioRuns ==
    {[extract |-> "none", transcribed |-> FALSE, step_raises |-> FALSE,
      tconf |-> 0, quality |-> 0, density |-> 0, elements |-> 0, word_count |-> 0],
     [extract |-> "ok", transcribed |-> FALSE, step_raises |-> FALSE,
      tconf |-> 100, quality |-> 500, density |-> 0, elements |-> 0, word_count |-> 0],
     [extract |-> "ok", transcribed |-> TRUE, step_raises |-> TRUE,
      tconf |-> 700, quality |-> 500, density |-> 0, elements |-> 0, word_count |-> 10],
     [extract |-> "ok", transcribed |-> TRUE, step_raises |-> FALSE,
      tconf |-> 0, quality |-> 0, density |-> 0, elements |-> 0, word_count |-> 0],
     [extract |-> "ok", transcribed |-> TRUE, step_raises |-> FALSE,
      tconf |-> 500, quality |-> 500, density |-> 0, elements |-> 0, word_count |-> 10],
     [extract |-> "ok", transcribed |-> TRUE, step_raises |-> FALSE,
      tconf |-> 900, quality |-> 800, density |-> 100, elements |-> 5, word_count |-> 60]}

_create_failed_result(error_message) ==
    [transcription |-> "",
     transcription_confidence |-> 100,
     instructions |-> "",
     confidence |-> 100,
     cooking_terms_found |-> 0,
     time_indicators |-> <<>>,
     success |-> FALSE,
     error |-> error_message]

(* The same sum without the final cap.                                     *)
_calculate_comprehensive_confidence_uncapped(run) ==
    LET c0 == 300
        c1 == c0 + (run.tconf * 3) \div 10
        c2 == c1 + (run.quality * 2) \div 10
        c3 == c2 + Min(run.density * 2, 200)
        c4 == c3 + (IF run.elements >= 5 THEN 300 ELSE run.elements * 50)
        c5 == c4 + (IF run.word_count > 50 THEN 100
                    ELSE IF run.word_count > 20 THEN 50 ELSE 0)
    IN  c5

(* elements counts the mined categories present (actions, ingredients,     *)
(* time indicators, measurements: 0.05 each; instructions: 0.1).           *)
_calculate_comprehensive_confidence(run) ==
    LET c0 == 300
        c1 == c0 + (run.tconf * 3) \div 10
        c2 == c1 + (run.quality * 2) \div 10
        c3 == c2 + Min(run.density * 2, 200)
        c4 == c3 + (IF run.elements >= 5 THEN 300 ELSE run.elements * 50)
        c5 == c4 + (IF run.word_count > 50 THEN 100
                    ELSE IF run.word_count > 20 THEN 50 ELSE 0)
    IN  Min(c5, 950)

(* The same steps without the handler around them.                         *)
transcribe_video_audio_unguarded(run) ==
    IF run.extract = "none"
    THEN _create_failed_result("Audio extraction failed")
    ELSE IF ~run.transcribed
    THEN _create_failed_result("Transcription failed")
    ELSE IF run.step_raises
    THEN Raised
    ELSE [transcription |-> IF run.word_count > 50
                            THEN "this cake recipe is sweet"
                            ELSE IF run.word_count > 0
                            THEN "add the garlic" ELSE "",
          transcription_confidence |-> run.tconf,
          instructions |-> IF run.elements >= 5 THEN "spoken steps" ELSE "",
          confidence |-> _calculate_comprehensive_confidence(run),
          cooking_terms_found |-> run.elements,
          time_indicators |-> <<>>,
          success |-> TRUE]

transcribe_video_audio(run) ==
    IF run.extract = "none"
    THEN _create_failed_result("Audio extraction failed")
    ELSE IF ~run.transcribed
    THEN _create_failed_result("Transcription failed")
    ELSE IF run.step_raises
    THEN _create_failed_result("Processing error")
    ELSE [transcription |-> IF run.word_count > 50
                            THEN "this cake recipe is sweet"
                            ELSE IF run.word_count > 0
                            THEN "add the garlic" ELSE "",
          transcription_confidence |-> run.tconf,
          instructions |-> IF run.elements >= 5 THEN "spoken steps" ELSE "",
          confidence |-> _calculate_comprehensive_confidence(run),
          cooking_terms_found |-> run.elements,
          time_indicators |-> <<>>,
          success |-> TRUE]

(* The extraction methods unlink the downloaded video themselves; the      *)
(* extracted audio file is unlinked only on the way to the success         *)
(* result.                                                                 *)
audio_files_left(run) ==
    IF run.extract = "none" THEN {}
    ELSE IF ~run.transcribed \/ run.step_raises THEN {"audio.wav"}
    ELSE {}

(* ---------------------------------------------------------------------- *)
(* AI fusion service                                                      *)
(* ---------------------------------------------------------------------- *)
None == [none |-> TRUE]

IsNone(r) == "none" \in DOMAIN r

Ok(v) == [val |-> v]

source_weights(source) ==
    CASE source = "text" -> 600
      [] source = "audio" -> 300
      [] source = "visual" -> 100

(* The context with every source that is there, whatever its confidence.   *)
_prepare_fusion_context_unfiltered(text_result, audio_result, visual_result) ==
    LET keys ==
            {"text"}
            \cup (IF ~IsNone(audio_result) /\ Get(audio_result, "confidence", 0) >= 0
                  THEN {"audio"} ELSE {})
            \cup (IF ~IsNone(visual_result) /\ Get(visual_result, "confidence", 0) >= 0
                  THEN {"visual"} ELSE {})
    IN  [source \in keys |->
            CASE source = "text" ->
                    [weight |-> source_weights("text"),
                     confidence |-> Get(text_result, "confidence", 600),
                     data |->
                        [description |-> Get(text_result, "source_text", ""),
                         extracted_ingredients |-> Get(text_result, "ingredients", <<>>),
                         extracted_category |-> Get(text_result, "category", ""),
                         extracted_difficulty |-> Get(text_result, "difficulty", ""),
                         extracted_cooking_time |-> Get(text_result, "cookingTime", 0),
                         extracted_instructions |-> Get(text_result, "instructions", "")]]
              [] source = "audio" ->
                    [weight |-> source_weights("audio"),
                     confidence |-> Get(audio_result, "confidence", 500),
                     data |->
                        [transcription |-> Get(audio_result, "transcription", ""),
                         instructions |-> Get(audio_result, "instructions", ""),
                         cooking_times |-> Get(audio_result, "cookingTimes", <<>>),
                         time_indicators |-> Get(audio_result, "timeIndicators", <<>>),
                         cooking_terms_count |-> Get(audio_result, "cookingTermsFound", 0)]]
              [] source = "visual" ->
                    [weight |-> source_weights("visual"),
                     confidence |-> Get(visual_result, "confidence", 400),
                     data |->
                        [visual_ingredients |-> Get(visual_result, "visualIngredients", <<>>),
                         ocr_text |-> Get(visual_result, "ocrText", ""),
                         frame_count |-> Get(visual_result, "framesProcessed", 0)]]]

(* text_result is a non-empty dict on every call, so it is always truthy.  *)
_prepare_fusion_context(text_result, audio_result, visual_result) ==
    LET keys ==
            {"text"}
            \cup (IF ~IsNone(audio_result) /\ Get(audio_result, "confidence", 0) > 300
                  THEN {"audio"} ELSE {})
            \cup (IF ~IsNone(visual_result) /\ Get(visual_result, "confidence", 0) > 300
                  THEN {"visual"} ELSE {})
    IN  [source \in keys |->
            CASE source = "text" ->
                    [weight |-> source_weights("text"),
                     confidence |-> Get(text_result, "confidence", 600),
                     data |->
                        [description |-> Get(text_result, "source_text", ""),
                         extracted_ingredients |-> Get(text_result, "ingredients", <<>>),
                         extracted_category |-> Get(text_result, "category", ""),
                         extracted_difficulty |-> Get(text_result, "difficulty", ""),
                         extracted_cooking_time |-> Get(text_result, "cookingTime", 0),
                         extracted_instructions |-> Get(text_result, "instructions", "")]]
              [] source = "audio" ->
                    [weight |-> source_weights("audio"),
                     confidence |-> Get(audio_result, "confidence", 500),
                     data |->
                        [transcription |-> Get(audio_result, "transcription", ""),
                         instructions |-> Get(audio_result, "instructions", ""),
                         cooking_times |-> Get(audio_result, "cookingTimes", <<>>),
                         time_indicators |-> Get(audio_result, "timeIndicators", <<>>),
                         cooking_terms_count |-> Get(audio_result, "cookingTermsFound", 0)]]
              [] source = "visual" ->
                    [weight |-> source_weights("visual"),
                     confidence |-> Get(visual_result, "confidence", 400),
                     data |->
                        [visual_ingredients |-> Get(visual_result, "visualIngredients", <<>>),
                         ocr_text |-> Get(visual_result, "ocrText", ""),
                         frame_count |-> Get(visual_result, "framesProcessed", 0)]]]

(* Iteration order of the context dict: text, audio, visual.               *)
ContextOrder(context) ==
    LET a == IF "text" \in DOMAIN context THEN <<"text">> ELSE <<>>
        b == IF "audio" \in DOMAIN context THEN <<"audio">> ELSE <<>>
        c == IF "visual" \in DOMAIN context THEN <<"visual">> ELSE <<>>
    IN  a \o b \o c

(* Facts about the transcripts the audio runs produce: which of them hold  *)
(* the word "recipe", their first five words, the category words in them   *)
(* and what the "add/use/mix + noun" patterns find.                        *)
TranscriptionHasRecipe(t) == t = "this cake recipe is sweet"

TranscriptionCategoryWord(t) ==
    IF t = "this cake recipe is sweet" THEN "dessert" ELSE "none"

(* str.lower() on the strings of the model.                                 *)
Lower(str) ==
    CASE str = "Add the Garlic" -> "add the garlic"
      [] str = "Garlic" -> "garlic"
      [] OTHER -> str

_extract_ingredients_from_text_simple(t) ==
    IF Lower(t) = "add the garlic" THEN <<"garlic">> ELSE <<>>

JoinRecipeTitle(ingredients) ==
    IF Len(ingredients) >= 3 THEN "chicken, beef, pork Recipe"
    ELSE IF Len(ingredients) = 2 THEN "chicken, beef Recipe"
    ELSE "chicken Recipe"

TitleLen(title) ==
    CASE title = "Recipe" -> 6
      [] title = "Delicious Recipe" -> 16
      [] title = "chicken Recipe" -> 14
      [] title = "chicken, beef Recipe" -> 20
      [] title = "chicken, beef, pork Recipe" -> 26
      [] title = "this cake recipe is sweet Recipe" -> 32
      [] title = "Creamy Garlic Pasta Recipe" -> 26
      [] OTHER -> 0

_fallback_title(context) ==
    IF "text" \in DOMAIN context
       /\ context["text"].data.extracted_ingredients # <<>>
    THEN Ok(JoinRecipeTitle(context["text"].data.extracted_ingredients))
    ELSE IF "audio" \in DOMAIN context
            /\ TranscriptionHasRecipe(context["audio"].data.transcription)
    THEN Ok("this cake recipe is sweet Recipe")
    ELSE Ok("Delicious Recipe")

Truthy(str) == str # NoneStr /\ str # ""

_fallback_category(context) ==
    IF "text" \in DOMAIN context
       /\ Truthy(context["text"].data.extracted_category)
    THEN Ok(context["text"].data.extracted_category)
    ELSE IF "audio" \in DOMAIN context
            /\ TranscriptionCategoryWord(context["audio"].data.transcription)
                 = "dessert"
    THEN Ok("Desserts")
    ELSE Ok("Main Course")

RECURSIVE MaxIngredients(_, _, _)
MaxIngredients(context, order, withVisual) ==
    IF order = <<>> THEN 0
    ELSE LET data == context[Head(order)].data
             own == Get(data, "extracted_ingredients", <<>>)
             ingredients == IF own = <<>> /\ withVisual
                            THEN Get(data, "visual_ingredients", <<>>)
                            ELSE own
         IN  Max(Len(ingredients),
                 MaxIngredients(context, Tail(order), withVisual))

(* max(cooking_time, time) raises TypeError when a source's                *)
(* extracted_cooking_time is None.                                         *)
_fallback_difficulty(context) ==
    LET total_ingredients == MaxIngredients(context, ContextOrder(context), TRUE)
        s1 == IF total_ingredients > 10 THEN 2
              ELSE IF total_ingredients > 6 THEN 1 ELSE 0
        times == {Get(context[s].data, "extracted_cooking_time", 0) :
                    s \in DOMAIN context}
        cooking_time == CHOOSE t \in times \cup {0} :
                            \A u \in times \cup {0} : t >= u
        s2 == IF cooking_time > 60 THEN 2
              ELSE IF cooking_time > 30 THEN 1 ELSE 0
        complexity_score == s1 + s2
    IN  IF NoneInt \in times THEN Raised
        ELSE IF complexity_score >= 3 THEN Ok("Hard")
        ELSE IF complexity_score >= 1 THEN Ok("Medium")
        ELSE Ok("Easy")

RECURSIVE SumMinutes(_)
SumMinutes(ts) ==
    IF ts = <<>> THEN 0 ELSE Get(Head(ts), "minutes", 30) + SumMinutes(Tail(ts))

_fallback_cooking_time(context) ==
    LET time == IF "text" \in DOMAIN context
                THEN context["text"].data.extracted_cooking_time ELSE 0
        cooking_times == IF "audio" \in DOMAIN context
                         THEN context["audio"].data.cooking_times ELSE <<>>
        ingredient_count == MaxIngredients(context, ContextOrder(context), FALSE)
    IN  IF time # NoneInt /\ time # 0 /\ 5 <= time /\ time <= 240
        THEN Ok(time)
        ELSE IF cooking_times # <<>>
                /\ 5 * Len(cooking_times) <= SumMinutes(cooking_times)
                /\ SumMinutes(cooking_times) <= 240 * Len(cooking_times)
        THEN Ok(SumMinutes(cooking_times) \div Len(cooking_times))
        ELSE IF ingredient_count > 8 THEN Ok(45)
        ELSE IF ingredient_count > 5 THEN Ok(35)
        ELSE Ok(25)

RECURSIVE Dedup(_, _)
Dedup(items, unique) ==
    IF items = <<>> THEN unique
    ELSE LET x == Head(items)
         IN  IF x # "" /\ ~(\E i \in 1..Len(unique) : unique[i] = x)
             THEN Dedup(Tail(items), Append(unique, x))
             ELSE Dedup(Tail(items), unique)

(* The combination without the duplicate filter.                           *)
_fallback_ingredients_undeduplicated(context) ==
    LET a == IF "text" \in DOMAIN context
             THEN context["text"].data.extracted_ingredients ELSE <<>>
        b == IF "audio" \in DOMAIN context
             THEN _extract_ingredients_from_text_simple(
                      context["audio"].data.transcription)
             ELSE <<>>
        c == IF "visual" \in DOMAIN context
             THEN context["visual"].data.visual_ingredients ELSE <<>>
    IN  Ok(Prefix(a \o b \o c, 12))

_fallback_ingredients(context) ==
    LET a == IF "text" \in DOMAIN context
             THEN context["text"].data.extracted_ingredients ELSE <<>>
        b == IF "audio" \in DOMAIN context
             THEN _extract_ingredients_from_text_simple(
                      context["audio"].data.transcription)
             ELSE <<>>
        c == IF "visual" \in DOMAIN context
             THEN context["visual"].data.visual_ingredients ELSE <<>>
    IN  Ok(Prefix(Dedup(a \o b \o c, <<>>), 12))

(* Answers of the model endpoints to the five fusion sub-tasks.  A title,  *)
(* category or difficulty of NoneStr, a time of status "fail" and an       *)
(* empty ingredient list stand for a call that failed or whose answer      *)
(* held nothing usable.                                                    *)
GeneratedTimes ==
    {[status |-> "fail", mentions |-> <<>>],
     [status |-> "ok", mentions |-> <<[val |-> 45, unit |-> "minutes"]>>],
     [status |-> "ok", mentions |-> <<[val |-> 0, unit |-> "mins"],
                                      [val |-> 3, unit |-> "hours"]>>],
     [status |-> "ok", mentions |-> <<[val |-> 300, unit |-> "minutes"]>>]}

FusionResponses ==
    [title : {NoneStr, "Creamy Garlic Pasta Recipe"},
     category : {NoneStr, "Desserts"},
     difficulty : {NoneStr, "Hard"},
     time : GeneratedTimes,
     ingredients : {<<>>, <<"garlic", "olive oil">>}]

_extract_recipe_title_with_ai(context, resp) ==
    IF resp.title # NoneStr /\ TitleLen(resp.title) > 5
    THEN Ok(resp.title)
    ELSE _fallback_title(context)

_extract_category_with_ai(context, resp) ==
    IF resp.category # NoneStr
    THEN Ok(resp.category)
    ELSE _fallback_category(context)

_extract_difficulty_with_ai(context, resp) ==
    IF resp.difficulty # NoneStr
    THEN Ok(resp.difficulty)
    ELSE _fallback_difficulty(context)

InRange(t) == 5 <= t /\ t <= 240

(* Patterns tried in order: minutes?, mins? (which also matches the start  *)
(* of "minutes"), hours? (times 60); the first match of a pattern is       *)
(* returned when it is within [5,240], otherwise the next pattern is       *)
(* tried.  The last pattern ('Time...') never matches lower-cased text.    *)
_parse_time_from_generation(mentions) ==
    LET p1 == IF HasIn(mentions, {"minutes"})
              THEN FirstIn(mentions, {"minutes"}).val ELSE NoneInt
        p2 == IF HasIn(mentions, {"minutes", "mins"})
              THEN FirstIn(mentions, {"minutes", "mins"}).val ELSE NoneInt
        p3 == IF HasIn(mentions, {"hours"})
              THEN FirstIn(mentions, {"hours"}).val * 60 ELSE NoneInt
    IN  IF InRange(p1) THEN p1
        ELSE IF InRange(p2) THEN p2
        ELSE IF InRange(p3) THEN p3
        ELSE NoneInt

(* Building the prompt compares extracted_time > 0, which raises on None;  *)
(* the except branch then takes the fallback.                              *)
_create_time_extraction_prompt_raises(context) ==
    "text" \in DOMAIN context
    /\ context["text"].data.extracted_cooking_time = NoneInt

_extract_cooking_time_with_ai(context, resp) ==
    LET extracted_time == _parse_time_from_generation(resp.time.mentions)
    IN  IF ~_create_time_extraction_prompt_raises(context)
           /\ resp.time.status = "ok"
           /\ extracted_time # NoneInt /\ InRange(extracted_time)
        THEN Ok(extracted_time)
        ELSE _fallback_cooking_time(context)

_extract_ingredients_with_ai(context, resp) ==
    IF Len(resp.ingredients) >= 2
    THEN Ok(resp.ingredients)
    ELSE _fallback_ingredients(context)

RECURSIVE WeightedSum(_, _)
WeightedSum(context, sources) ==
    IF sources = {} THEN 0
    ELSE LET s == CHOOSE x \in sources : TRUE
         IN  context[s].weight * context[s].confidence
             + WeightedSum(context, sources \ {s})

RECURSIVE TotalWeight(_, _)
TotalWeight(context, sources) ==
    IF sources = {} THEN 0
    ELSE LET s == CHOOSE x \in sources : TRUE
         IN  context[s].weight + TotalWeight(context, sources \ {s})

(* The confidence with every participating source weighted equally.       *)
_calculate_ai_fusion_confidence_unweighted(context, fused_recipe) ==
    LET total_weight == TotalWeight(context, DOMAIN context)
        base_confidence ==
            IF total_weight > 0
            THEN WeightedSum([s \in DOMAIN context |->
                                [context[s] EXCEPT !.weight = 1]],
                             DOMAIN context)
                     \div Cardinality(DOMAIN context)
            ELSE 500
        ai_boost == 150
        multi_source_boost == Min(Cardinality(DOMAIN context) * 50, 150)
        b1 == IF Truthy(fused_recipe.title) /\ TitleLen(fused_recipe.title) > 5
              THEN 50 ELSE 0
        b2 == IF Len(fused_recipe.ingredients) >= 3 THEN 50 ELSE 0
        b3 == IF Truthy(fused_recipe.category) THEN 30 ELSE 0
        b4 == IF fused_recipe.cookingTime > 0 THEN 20 ELSE 0
        final_confidence ==
            base_confidence + ai_boost + multi_source_boost + b1 + b2 + b3 + b4
    IN  Min(final_confidence, 950)

_calculate_ai_fusion_confidence(context, fused_recipe) ==
    LET total_weight == TotalWeight(context, DOMAIN context)
        base_confidence ==
            IF total_weight > 0
            THEN WeightedSum(context, DOMAIN context) \div total_weight
            ELSE 500
        ai_boost == 150
        multi_source_boost == Min(Cardinality(DOMAIN context) * 50, 150)
        b1 == IF Truthy(fused_recipe.title) /\ TitleLen(fused_recipe.title) > 5
              THEN 50 ELSE 0
        b2 == IF Len(fused_recipe.ingredients) >= 3 THEN 50 ELSE 0
        b3 == IF Truthy(fused_recipe.category) THEN 30 ELSE 0
        b4 == IF fused_recipe.cookingTime > 0 THEN 20 ELSE 0
        final_confidence ==
            base_confidence + ai_boost + multi_source_boost + b1 + b2 + b3 + b4
    IN  Min(final_confidence, 950)

_fallback_fusion(text_result, audio_result, visual_result) ==
    [title |-> Get(text_result, "title", "Recipe"),
     category |-> Get(text_result, "category", "Main Course"),
     difficulty |-> Get(text_result, "difficulty", "Medium"),
     cookingTime |-> Get(text_result, "cookingTime", 30),
     ingredients |-> Get(text_result, "ingredients", <<>>),
     confidence |-> 400,
     fusionMethod |-> "fallback",
     dataSources |-> <<"text">>]

(* A sub-task that raised is replaced by its fallback helper, called       *)
(* again while the recipe dict is built; if that call raises too, the      *)
(* outer except returns _fallback_fusion.                                  *)
Compile(result, fallback) == IF IsRaised(result) THEN fallback ELSE result

FusionBody(text_result, audio_result, visual_result, resp) ==
    LET fusion_context ==
            _prepare_fusion_context(text_result, audio_result, visual_result)
        title == Compile(_extract_recipe_title_with_ai(fusion_context, resp),
                         _fallback_title(fusion_context))
        category == Compile(_extract_category_with_ai(fusion_context, resp),
                            _fallback_category(fusion_context))
        difficulty == Compile(_extract_difficulty_with_ai(fusion_context, resp),
                              _fallback_difficulty(fusion_context))
        cookingTime == Compile(_extract_cooking_time_with_ai(fusion_context, resp),
                               _fallback_cooking_time(fusion_context))
        ingredients == Compile(_extract_ingredients_with_ai(fusion_context, resp),
                               _fallback_ingredients(fusion_context))
        fused_recipe ==
            [title |-> title.val,
             category |-> category.val,
             difficulty |-> difficulty.val,
             cookingTime |-> cookingTime.val,
             ingredients |-> ingredients.val]
    IN  IF IsRaised(title) \/ IsRaised(category) \/ IsRaised(difficulty)
           \/ IsRaised(cookingTime) \/ IsRaised(ingredients)
        THEN Raised
        ELSE [title |-> fused_recipe.title,
              category |-> fused_recipe.category,
              difficulty |-> fused_recipe.difficulty,
              cookingTime |-> fused_recipe.cookingTime,
              ingredients |-> fused_recipe.ingredients,
              confidence |->
                  _calculate_ai_fusion_confidence(fusion_context, fused_recipe),
              fusionMethod |-> "ai_weighted",
              dataSources |-> ContextOrder(fusion_context),
              extractedFields |-> 5]

(* The fusion computation without the outer handler.                       *)
fuse_multimodal_data_with_ai_unguarded(text_result, audio_result, visual_result, resp) ==
    FusionBody(text_result, audio_result, visual_result, resp)

fuse_multimodal_data_with_ai(text_result, audio_result, visual_result, resp) ==
    LET fused_recipe == FusionBody(text_result, audio_result, visual_result, resp)
    IN  IF IsRaised(fused_recipe)
        THEN _fallback_fusion(text_result, audio_result, visual_result)
        ELSE fused_recipe

(* ---------------------------------------------------------------------- *)
(* Mistral refinement: extract_structured_recipe                          *)
(* ---------------------------------------------------------------------- *)
(* Outcomes of the refinement call: the API call fails (HTTP error,        *)
(* timeout, missing key), it answers text that is not JSON, or it answers  *)
(* a JSON recipe.                                                          *)
MistralResponses == {"api_error", "unparsable", "json"}

_call_mistral_api(resp) ==
    IF resp = "api_error"
    THEN [success |-> FALSE, content |-> ""]
    ELSE [success |-> TRUE, content |-> resp]

_extract_data_manually(content) ==
    [recipe_name |-> "Recipe from Instagram",
     ingredients |-> <<>>,
     category |-> "Main Course",
     cooking_time |-> 30,
     difficulty |-> "Medium",
     notes |-> "Extracted from multimodal analysis"]

_validate_recipe_data(content) ==
    [recipe_name |-> "Garlic Chicken",
     ingredients |-> <<"chicken", "garlic">>,
     category |-> "Main Course",
     cooking_time |-> 25,
     difficulty |-> "Easy",
     notes |-> ""]

_parse_mistral_response(content) ==
    IF content = "json"
    THEN _validate_recipe_data(content)
    ELSE _extract_data_manually(content)

(* The loop over the phases keeps the ingredients of the last phase dict   *)
(* that has an "ingredients" key; phase_4_fusion is the last and always    *)
(* has one.                                                                *)
_create_fallback_result(multimodal_data) ==
    [success |-> FALSE,
     recipe_data |->
        [recipe_name |-> "Instagram Recipe",
         ingredients |-> multimodal_data.phase_4_fusion.ingredients,
         category |-> "Main Course",
         cooking_time |-> 30,
         difficulty |-> "Medium",
         notes |-> "Extracted using fallback method"],
     confidence |-> 300]

extract_structured_recipe(multimodal_data, resp) ==
    LET mistral_response == _call_mistral_api(resp)
    IN  IF mistral_response.success
        THEN [success |-> TRUE,
              recipe_data |-> _parse_mistral_response(mistral_response.content),
              confidence |-> 950]
        ELSE _create_fallback_result(multimodal_data)

(* ---------------------------------------------------------------------- *)
(* Thumbnail and video-URL variants of phases 2 and 3                     *)
(* (taken only when instagram_url is empty)                               *)
(* ---------------------------------------------------------------------- *)
_calculate_visual_confidence(visual_ingredients, ocr_text) ==
    LET c1 == 400 + (IF Len(visual_ingredients) >= 2 THEN 200 ELSE 0)
        c2 == c1 + (IF Len(visual_ingredients) >= 4 THEN 100 ELSE 0)
    IN  Min(c2, 800)

(* With a downloaded image the detections are merged into the text         *)
(* ingredients (OCR is a placeholder returning ""); without one the frame  *)
(* path is tried, and its failure is caught and turned into the 0.2        *)
(* result.                                                                 *)
_extract_from_visual(run, text_context) ==
    IF run.download = "ok"
    THEN LET visual_ingredients == Prefix(food_labels, run.ningredients)
         IN  [source |-> "visual",
              ingredients |-> Prefix(Dedup(Get(text_context, "ingredients", <<>>)
                                            \o visual_ingredients, <<>>), 15),
              ocrText |-> "",
              visualIngredients |-> visual_ingredients,
              confidence |-> _calculate_visual_confidence(visual_ingredients, "")]
    ELSE [source |-> "visual",
          ingredients |-> <<>>,
          ocrText |-> "",
          visualIngredients |-> <<>>,
          confidence |-> 200]

_simulate_audio_transcription(text_context) ==
    IF Get(text_context, "instructions", "") # ""
    THEN "Audio transcription of the text instructions"
    ELSE IF Get(text_context, "ingredients", <<>>) # <<>>
    THEN "Prepare the ingredients, follow the video, cook until done"
    ELSE ""

_fallback_audio_extraction(text_context) ==
    LET audio_instructions == _simulate_audio_transcription(text_context)
    IN  [source |-> "audio_fallback",
         instructions |-> audio_instructions,
         transcription |-> "Audio transcription not available",
         confidence |-> IF audio_instructions # "" THEN 300 ELSE 100]

_extract_from_audio(run, text_context) ==
    LET audio_result == transcribe_video_audio(run)
    IN  IF Get(audio_result, "confidence", 0) < 300
        THEN _fallback_audio_extraction(text_context)
        ELSE [source |-> "audio",
              instructions |-> Get(audio_result, "instructions", ""),
              transcription |-> Get(audio_result, "transcription", ""),
              cookingTimes |-> <<>>,
              timeIndicators |-> Get(audio_result, "time_indicators", <<>>),
              cookingTermsFound |-> Get(audio_result, "cooking_terms_found", 0),
              confidence |-> Get(audio_result, "confidence", 500)]

(* ---------------------------------------------------------------------- *)
(* The run: API layer and MultiModalAIService.extract_progressive          *)
(* ---------------------------------------------------------------------- *)
VARIABLES
    request,        \* MultiModalExtractionRequest flags
    metadata,       \* what instagram_service.get_metadata returned
    instagram_url, thumbnail_url, video_url,   \* arguments of extract_progressive
    client,         \* MultiModalAIService.client
    pc,             \* where the generator is suspended
    events,         \* the events yielded so far
    http_status,    \* status of the HTTP response, NoneInt before it starts
    tmp_files,      \* temporary media files left in /tmp
    text_result, visual_result, audio_result, final_result, mistral_result,
    now,            \* int(time.time() * 1000), the clock the temp paths are named by
    tmp_dir,        \* the files in /tmp and the run that wrote each
    runs            \* position of each of the concurrent pipeline runs

vars == <<now, tmp_dir, runs, request, metadata, http_status, tmp_files,
          instagram_url, thumbnail_url, video_url, client, pc, events,
          text_result, visual_result, audio_result, final_result, mistral_result>>

PhaseError == 0

Event(phase, status, progress, data) ==
    [phase |-> phase, status |-> status, progress |-> progress, data |-> data]

(* A failure reported as an event of the text phase.                       *)
ErrorEvent_in_phase == Event(1, "failed", 0, None)

(* The except branch of extract_progressive.                               *)
ErrorEvent == Event(PhaseError, "failed", 0, None)

RunFusionResponses ==
    {r \in FusionResponses :
        /\ (r.title = NoneStr) = (r.category = NoneStr)
        /\ (r.title = NoneStr) = (r.ingredients = <<>>)
        /\ Len(r.time.mentions) <= 1}

(* Two requests served by the one module-level MultiModalAIService and    *)
(* the processors it calls.                                               *)
NumRuns == 2

Runs == 1..NumRuns

NoPath == [prefix |-> "none", ts |-> 0]

(* A run that has not started its media steps.                             *)
IdleRun == [pc |-> "idle", phase |-> 0, path |-> NoPath, saw |-> NoneInt]

Init ==
    /\ request \in [enable_visual_analysis : BOOLEAN,
                    enable_audio_transcription : BOOLEAN,
                    max_processing_time : {30}]
    /\ metadata \in {Raised} \cup [thumbnailUrl : {NoneStr, "thumb.jpg"}]
    /\ http_status = NoneInt
    /\ tmp_files = {}
    /\ instagram_url = "https://www.instagram.com/reel/x"
    /\ thumbnail_url = NoneStr
    /\ video_url = NoneStr
    /\ client \in {NoneStr, "client"}
    /\ pc = "prepare"
    /\ events = <<>>
    /\ text_result = None
    /\ visual_result = None
    /\ audio_result = None
    /\ final_result = None
    /\ mistral_result = None
    /\ now = 0
    /\ tmp_dir = {}
    /\ runs = [r \in Runs |-> IdleRun]

(* stream_multimodal_extraction / extract_multimodal_batch up to the call   *)
(* of extract_progressive: a metadata fetch that raises is answered with   *)
(* HTTP 400 before any event; otherwise the arguments are prepared and     *)
(* the response starts.                                                    *)
Prepare ==
    /\ pc = "prepare"
    /\ IF IsRaised(metadata)
       THEN /\ http_status' = 400
            /\ pc' = "rejected"
            /\ UNCHANGED <<thumbnail_url, video_url>>
       ELSE /\ http_status' = 200
            /\ thumbnail_url' = IF request.enable_visual_analysis
                                THEN metadata.thumbnailUrl ELSE NoneStr
            /\ video_url' = IF request.enable_audio_transcription
                            THEN instagram_url ELSE NoneStr
            /\ pc' = "call"
    /\ UNCHANGED <<now, tmp_dir, runs, request, metadata, tmp_files,
                   instagram_url, client, events,
                   text_result, visual_result, audio_result, final_result,
                   mistral_result>>

(* A consumer that receives each event ahead of the earlier ones.          *)
Yield_reversed(e, next) ==
    /\ events' = <<e>> \o events
    /\ pc' = next

Yield(e, next) ==
    /\ events' = Append(events, e)
    /\ pc' = next

Fail == Yield(ErrorEvent, "done")

(* Creating the HTTP client is the first statement of the try block.       *)
Begin ==
    /\ pc = "call"
    /\ \E created \in BOOLEAN :
        IF client = NoneStr /\ ~created
        THEN /\ Fail
             /\ UNCHANGED client
        ELSE /\ client' = "client"
             /\ Yield(Event(1, "processing", 25, None), "phase1")
    /\ UNCHANGED <<now, tmp_dir, runs, request, metadata, http_status, tmp_files,
                   instagram_url, thumbnail_url,
                   video_url, text_result, visual_result, audio_result,
                   final_result, mistral_result>>

Phase1Text ==
    /\ pc = "phase1"
    /\ \E text \in Texts, resp \in CategoryResponses :
        LET r == _extract_from_text_enhanced(text, resp)
        IN  IF IsRaised(r)
            THEN Fail /\ UNCHANGED text_result
            ELSE /\ text_result' = r
                 /\ Yield(Event(1, "completed", 25, r), "phase2_gate")
    /\ UNCHANGED <<now, tmp_dir, runs, request, metadata, http_status, tmp_files,
                   instagram_url, thumbnail_url,
                   video_url, client, visual_result, audio_result,
                   final_result, mistral_result>>

(* Resuming after a 'completed' event runs up to the next yield: the       *)
(* 'processing' event of the next phase that is entered.                   *)
EnterPhase3OrLater ==
    IF Truthy(instagram_url)
    THEN Yield(Event(3, "processing", 75, None), "phase3_instagram")
    ELSE IF Truthy(video_url)
    THEN Yield(Event(3, "processing", 80, None), "phase3_video_url")
    ELSE Yield(Event(4, "processing", 100, None), "phase4")

Phase2Enter ==
    /\ pc = "phase2_gate"
    /\ IF Truthy(instagram_url)
       THEN Yield(Event(2, "processing", 40, None), "phase2_instagram")
       ELSE IF Truthy(thumbnail_url)
       THEN Yield(Event(2, "processing", 50, None), "phase2_thumbnail")
       ELSE EnterPhase3OrLater
    /\ UNCHANGED <<now, tmp_dir, runs, request, metadata, http_status, tmp_files,
                   instagram_url, thumbnail_url,
                   video_url, client, text_result, visual_result, audio_result,
                   final_result, mistral_result>>

Phase2Visual ==
    /\ pc \in {"phase2_instagram", "phase2_thumbnail"}
    /\ \E run \in VideoRuns :
        LET r == IF pc = "phase2_instagram"
                 THEN process_instagram_video_for_recipe(run)
                 ELSE _extract_from_visual(run, text_result)
        IN  /\ tmp_files' = tmp_files \cup
                   (IF pc = "phase2_instagram"
                    THEN video_files_left(run) ELSE {})
            /\ IF IsRaised(r)
               THEN Fail /\ UNCHANGED visual_result
               ELSE /\ visual_result' = r
                    /\ Yield(Event(2, "completed", 65, r), "phase3_gate")
    /\ UNCHANGED <<now, tmp_dir, runs, request, metadata, http_status,
                   instagram_url, thumbnail_url,
                   video_url, client, text_result, audio_result,
                   final_result, mistral_result>>

(* The awaited download (yt-dlp in the executor) never returns: no timeout *)
(* wraps the call and max_processing_time is not read, so the generator    *)
(* stays suspended in the await.                                           *)
Phase2Hang ==
    /\ pc = "phase2_instagram"
    /\ pc' = "phase2_hung"
    /\ UNCHANGED <<now, tmp_dir, runs, request, metadata, http_status, tmp_files,
                   instagram_url, thumbnail_url, video_url, client, events,
                   text_result, visual_result, audio_result, final_result,
                   mistral_result>>

Phase3Enter ==
    /\ pc = "phase3_gate"
    /\ EnterPhase3OrLater
    /\ UNCHANGED <<now, tmp_dir, runs, request, metadata, http_status, tmp_files,
                   instagram_url, thumbnail_url,
                   video_url, client, text_result, visual_result, audio_result,
                   final_result, mistral_result>>

Phase3Audio ==
    /\ pc \in {"phase3_instagram", "phase3_video_url"}
    /\ \E run \in AudioRuns :
        LET r == IF pc = "phase3_instagram"
                 THEN transcribe_video_audio(run)
                 ELSE _extract_from_audio(run, text_result)
        IN  /\ tmp_files' = tmp_files \cup audio_files_left(run)
            /\ IF IsRaised(r)
               THEN Fail /\ UNCHANGED audio_result
               ELSE /\ audio_result' = r
                    /\ Yield(Event(3, "completed", 85, r), "phase4_gate")
    /\ UNCHANGED <<now, tmp_dir, runs, request, metadata, http_status,
                   instagram_url, thumbnail_url,
                   video_url, client, text_result, visual_result,
                   final_result, mistral_result>>

(* The same for the audio phase (download, ffmpeg subprocess, Whisper in   *)
(* the executor).                                                          *)
Phase3Hang ==
    /\ pc = "phase3_instagram"
    /\ pc' = "phase3_hung"
    /\ UNCHANGED <<now, tmp_dir, runs, request, metadata, http_status, tmp_files,
                   instagram_url, thumbnail_url, video_url, client, events,
                   text_result, visual_result, audio_result, final_result,
                   mistral_result>>

Phase4Enter ==
    /\ pc = "phase4_gate"
    /\ Yield(Event(4, "processing", 100, None), "phase4")
    /\ UNCHANGED <<now, tmp_dir, runs, request, metadata, http_status, tmp_files,
                   instagram_url, thumbnail_url,
                   video_url, client, text_result, visual_result, audio_result,
                   final_result, mistral_result>>

Phase4Fusion ==
    /\ pc = "phase4"
    /\ \E resp \in RunFusionResponses :
        LET r == fuse_multimodal_data_with_ai(
                     text_result,
                     IF Truthy(video_url) THEN audio_result ELSE None,
                     IF Truthy(thumbnail_url) THEN visual_result ELSE None,
                     resp)
        IN  IF IsRaised(r)
            THEN Fail /\ UNCHANGED final_result
            ELSE /\ final_result' = r
                 /\ Yield(Event(4, "completed", 90, r), "phase5_gate")
    /\ UNCHANGED <<now, tmp_dir, runs, request, metadata, http_status, tmp_files,
                   instagram_url, thumbnail_url,
                   video_url, client, text_result, visual_result, audio_result,
                   mistral_result>>

Phase5Enter ==
    /\ pc = "phase5_gate"
    /\ Yield(Event(5, "processing", 95, None), "phase5")
    /\ UNCHANGED <<now, tmp_dir, runs, request, metadata, http_status, tmp_files,
                   instagram_url, thumbnail_url,
                   video_url, client, text_result, visual_result, audio_result,
                   final_result, mistral_result>>

Phase5Mistral ==
    /\ pc = "phase5"
    /\ \E resp \in MistralResponses :
        LET complete_data == [phase_1_text |-> text_result,
                              phase_2_video |-> visual_result,
                              phase_3_audio |-> audio_result,
                              phase_4_fusion |-> final_result]
            r == extract_structured_recipe(complete_data, resp)
        IN  IF IsRaised(r)
            THEN Fail /\ UNCHANGED mistral_result
            ELSE /\ mistral_result' = r
                 /\ Yield(Event(5, "completed", 100, r), "done")
    /\ UNCHANGED <<now, tmp_dir, runs, request, metadata, http_status, tmp_files,
                   instagram_url, thumbnail_url,
                   video_url, client, text_result, visual_result, audio_result,
                   final_result>>

Next ==
    \/ Prepare
    \/ Begin
    \/ Phase1Text
    \/ Phase2Enter
    \/ Phase2Visual
    \/ Phase2Hang
    \/ Phase3Enter
    \/ Phase3Audio
    \/ Phase3Hang
    \/ Phase4Enter
    \/ Phase4Fusion
    \/ Phase5Enter
    \/ Phase5Mistral

Spec == Init /\ [][Next]_vars

(* ---------------------------------------------------------------------- *)
(* Properties                                                             *)
(* ---------------------------------------------------------------------- *)
LastEvent == events[Len(events)]

HasEvent(phase, status) ==
    \E i \in 1..Len(events) :
        events[i].phase = phase /\ events[i].status = status

HasPhase(phase) == \E i \in 1..Len(events) : events[i].phase = phase

HasFailed == \E i \in 1..Len(events) : events[i].status = "failed"

Finished == pc = "done"

(* The arguments extract_progressive hands to the fusion service.          *)
FusionAudio == IF Truthy(video_url) THEN audio_result ELSE None

FusionVisual == IF Truthy(thumbnail_url) THEN visual_result ELSE None

(* C1: over the events yielded by a run, progress never decreases from     *)
(* one event to the next.                                                  *)
C1_ProgressNonDecreasing ==
    \A i \in 1..(Len(events) - 1) :
        events[i].progress <= events[i + 1].progress

(* C2: the last event of a finished run has status completed or failed     *)
(* and progress 100, on the success path and on the exception path.        *)
C2_LastEventAtHundred ==
    Finished =>
        /\ LastEvent.status \in {"completed", "failed"}
        /\ LastEvent.progress = 100

(* C3: once the text phase has produced its result, no 'failed' event      *)
(* follows, whatever the visual, audio, fusion and refinement outcomes,    *)
(* and the run that returns has yielded the fusion result and ends with    *)
(* a 'completed' event; a 'failed' event only occurs in a run that never   *)
(* yielded a text result.                                                  *)
C3_TextDoneRunCompletes ==
    /\ (HasEvent(1, "completed") /\ Finished) =>
          /\ HasEvent(4, "completed")
          /\ LastEvent.status = "completed"
    /\ HasEvent(1, "completed") => ~HasFailed

C3_Witness ==
    /\ Finished
    /\ HasEvent(1, "completed")
    /\ LastEvent.status = "completed"
    /\ visual_result.success = FALSE
    /\ audio_result.success = FALSE
    /\ final_result.fusionMethod = "fallback"
    /\ mistral_result.success = FALSE

UnexpectedException(result) ==
    ~IsNone(result) /\ Get(result, "error", "") = "Processing error"

(* C4 as stated: when the visual and the audio extractor both hit an       *)
(* unexpected internal exception, the terminal event is 'completed' and    *)
(* the recipe it carries has data sources exactly {text} and a title.      *)
C4_TerminalEventTextOnly ==
    (Finished /\ UnexpectedException(visual_result)
              /\ UnexpectedException(audio_result)) =>
        /\ LastEvent.status = "completed"
        /\ Get(LastEvent.data, "dataSources", <<>>) = <<"text">>
        /\ Truthy(Get(LastEvent.data, "title", ""))

ValidResult(r) ==
    /\ ~IsRaised(r)
    /\ "confidence" \in DOMAIN r
    /\ r.confidence \in 0..1000

(* C5: none of the three extractors lets an exception escape: whatever     *)
(* its internal steps and external calls do, each returns a result dict    *)
(* with a confidence, so the results the run holds are such dicts.         *)
C5_ExtractorsNeverRaise ==
    /\ pc = "phase1" =>
          \A text \in Texts, resp \in CategoryResponses :
              ValidResult(_extract_from_text_enhanced(text, resp))
    /\ pc = "phase2_instagram" =>
          \A run \in VideoRuns :
              ValidResult(process_instagram_video_for_recipe(run))
    /\ pc = "phase3_instagram" =>
          \A run \in AudioRuns : ValidResult(transcribe_video_audio(run))
    /\ HasEvent(1, "completed") => ValidResult(text_result)
    /\ HasEvent(2, "completed") => ValidResult(visual_result)
    /\ HasEvent(3, "completed") => ValidResult(audio_result)

C5_Witness ==
    /\ HasEvent(3, "completed")
    /\ text_result = TextFailureResult
    /\ UnexpectedException(visual_result)
    /\ UnexpectedException(audio_result)

(* C6: phase 2 events are yielded iff visual analysis is enabled and a     *)
(* video or thumbnail handle resolved, phase 3 events iff audio            *)
(* transcription is enabled and a video handle resolved.  The post URL     *)
(* is the video handle and is resolved in every run.                       *)
C6_OptionalPhasesGated ==
    (Finished /\ LastEvent.status = "completed") =>
        /\ HasPhase(2) <=>
              (request.enable_visual_analysis
               /\ (Truthy(instagram_url) \/ Truthy(metadata.thumbnailUrl)))
        /\ HasPhase(3) <=>
              (request.enable_audio_transcription /\ Truthy(instagram_url))

(* C7: the fusion call never raises: for every answer of the model         *)
(* endpoints it returns a recipe, and when the fusion computation throws   *)
(* the recipe is the text result's fields with confidence 0.4 and          *)
(* dataSources ['text'].                                                   *)
IsTextOnlyFallback(r) ==
    /\ r.confidence = 400
    /\ r.dataSources = <<"text">>
    /\ r.fusionMethod = "fallback"
    /\ r.ingredients = Get(text_result, "ingredients", <<>>)
    /\ r.category = Get(text_result, "category", "Main Course")
    /\ r.difficulty = Get(text_result, "difficulty", "Medium")
    /\ r.cookingTime = Get(text_result, "cookingTime", 30)

C7_FusionNeverRaises ==
    /\ pc = "phase4" =>
          \A resp \in FusionResponses :
              LET r == fuse_multimodal_data_with_ai(
                           text_result, FusionAudio, FusionVisual, resp)
              IN  /\ ~IsRaised(r)
                  /\ IsRaised(FusionBody(text_result, FusionAudio,
                                         FusionVisual, resp))
                        => IsTextOnlyFallback(r)
    /\ (HasEvent(4, "processing") /\ pc # "phase4") =>
          /\ ~IsNone(final_result)
          /\ ~IsRaised(final_result)
          /\ final_result.fusionMethod = "fallback"
                => IsTextOnlyFallback(final_result)

C7_Witness ==
    /\ HasEvent(4, "completed")
    /\ final_result.fusionMethod = "fallback"
    /\ final_result.confidence = 400

RefinementFailed ==
    /\ ~IsNone(mistral_result)
    /\ \/ ~mistral_result.success
       \/ mistral_result.recipe_data.notes = "Extracted from multimodal analysis"

(* C8: when the refinement call fails or answers unparsable text, the      *)
(* recipe in the terminal event is the fusion result, unchanged in every   *)
(* field and in its confidence.                                            *)
C8_FusionResultStands ==
    (Finished /\ RefinementFailed) => LastEvent.data = final_result

(* C9: the cookingTime of every text phase result is within [5,240].       *)
C9_TextCookingTimeInRange ==
    ~IsNone(text_result) => text_result.cookingTime \in 5..240

(* C10: the cookingTime of every recipe the fusion returns is within       *)
(* [5,240], on the generated, the per-field fallback and the whole-fusion  *)
(* fallback path.                                                          *)
C10_FusedCookingTimeInRange ==
    ~IsNone(final_result) => final_result.cookingTime \in 5..240

(* ---------------------------------------------------------------------- *)
(* Confidence bounds                                                      *)
(* ---------------------------------------------------------------------- *)
InUnitInterval(c) == c \in 0..1000

(* Measurements the confidence functions can be handed: scores of the      *)
(* classification endpoint, Whisper and the audio quality check lie in     *)
(* [0,1]; counts are natural numbers.                                      *)
ConfidenceTexts ==
    [mentions : {<<>>}, words : {{}, Keywords},
     ningredients : {0}, length : {0, 150, 400}]

ConfidenceVideoRuns ==
    [download : {"ok"}, frames : {1, 3, 12}, step_raises : {FALSE},
     ningredients : {0, 1, 4, 10}, ocr_long : BOOLEAN,
     scene_changes : {0, 2}, food_frames : {0, 1, 5}]

ConfidenceAudioRuns ==
    [extract : {"ok"}, transcribed : {TRUE}, step_raises : {FALSE},
     tconf : {0, 700, 1000}, quality : {0, 500, 1000},
     density : {0, 50, 1000}, elements : {0, 2, 5},
     word_count : {0, 30, 60}]

NoOptionalPhase ==
    /\ ~request.enable_visual_analysis
    /\ ~request.enable_audio_transcription

(* The text confidence plus the fixed boosts (AI 0.15, one source 0.05)    *)
(* and the completeness bonuses of the text extractor's own fields: a      *)
(* title built from them is longer than five characters.                   *)
TextOnlyConfidence(result) ==
    Min(950,
        result.confidence + 150 + 50
        + 50
        + (IF Len(result.ingredients) >= 3 THEN 50 ELSE 0)
        + (IF Truthy(result.category) THEN 30 ELSE 0)
        + (IF result.cookingTime > 0 THEN 20 ELSE 0))

(* C12: when the text phase succeeded and neither optional phase is        *)
(* enabled, the fusion result has data sources exactly {text} and its      *)
(* confidence is the text confidence plus the boosts and completeness      *)
(* bonuses, a function of the text result alone.                           *)
C12_TextOnlyFusionConfidence ==
    (HasEvent(4, "completed") /\ NoOptionalPhase
        /\ text_result # TextFailureResult) =>
        /\ final_result.dataSources = <<"text">>
        /\ final_result.confidence = TextOnlyConfidence(text_result)

(* C13: fusion is deterministic in its phase results: two calls with the   *)
(* same text, audio and visual results return the same recipe (the         *)
(* timestamp aside), whatever the model endpoints answer on each call.     *)
C13_FusionDeterministic ==
    pc = "phase4" =>
        \A first, second \in FusionResponses :
            fuse_multimodal_data_with_ai(
                text_result, FusionAudio, FusionVisual, first)
            = fuse_multimodal_data_with_ai(
                text_result, FusionAudio, FusionVisual, second)

(* C14: every temporary media file a phase creates is deleted by the time  *)
(* the phase returns, on success, on an early failure return and on an     *)
(* exception: once the visual phase is over no downloaded video is left,   *)
(* once the audio phase is over no extracted audio file is left.           *)
C14_TempFilesDeleted ==
    /\ HasEvent(2, "completed") => "video.mp4" \notin tmp_files
    /\ HasEvent(3, "completed") => "audio.wav" \notin tmp_files

(* A run suspended in an external call of the visual or audio phase that   *)
(* does not return.                                                        *)
PhaseHung == pc \in {"phase2_hung", "phase3_hung"}

(* C15: no phase blocks a run forever: when an external call of the        *)
(* visual or audio phase never returns, the run can still move on (the     *)
(* max_processing_time budget ends the phase as failed and the run goes    *)
(* on to fusion).                                                          *)
C15_NoPhaseBlocksForever == PhaseHung => ENABLED Next

(* ---------------------------------------------------------------------- *)
(* Batch mode: extract_multimodal_batch drains the same generator         *)
(* ---------------------------------------------------------------------- *)
LastOf(idx) ==
    IF idx = {} THEN 0 ELSE CHOOSE i \in idx : \A j \in idx : j <= i

(* A handler that answers HTTP 500 whenever the run ended with a 'failed'  *)
(* event.                                                                  *)
extract_multimodal_batch_strict(results) ==
    LET fused == LastOf({i \in 1..Len(results) :
                            /\ results[i].phase = 4
                            /\ results[i].status = "completed"})
        completed == LastOf({i \in 1..Len(results) :
                                /\ results[i].status = "completed"
                                /\ ~IsNone(results[i].data)})
    IN  IF results[Len(results)].status = "failed"
        THEN [status_code |-> 500, recipe |-> None]
        ELSE IF fused # 0 /\ ~IsNone(results[fused].data)
        THEN [status_code |-> 200, recipe |-> results[fused].data]
        ELSE IF completed # 0
        THEN [status_code |-> 200, recipe |-> results[completed].data]
        ELSE [status_code |-> 500, recipe |-> None]

(* final_result is overwritten by each phase-4 'completed' event while     *)
(* the generator is drained; without one the last 'completed' event with   *)
(* data is taken; without any the handler answers HTTP 500.                *)
extract_multimodal_batch(results) ==
    LET fused == LastOf({i \in 1..Len(results) :
                            /\ results[i].phase = 4
                            /\ results[i].status = "completed"})
        completed == LastOf({i \in 1..Len(results) :
                                /\ results[i].status = "completed"
                                /\ ~IsNone(results[i].data)})
    IN  IF fused # 0 /\ ~IsNone(results[fused].data)
        THEN [status_code |-> 200, recipe |-> results[fused].data]
        ELSE IF completed # 0
        THEN [status_code |-> 200, recipe |-> results[completed].data]
        ELSE [status_code |-> 500, recipe |-> None]

(* C16: batch mode delivers the terminal result: the recipe the batch      *)
(* handler returns for a run is the data of the last event of that run,    *)
(* the one streaming mode delivers last.                                   *)
C16_BatchReturnsTerminalData ==
    (Finished /\ LastEvent.status = "completed") =>
        extract_multimodal_batch(events).recipe = LastEvent.data

(* C17: when the source URL cannot be resolved (the metadata fetch         *)
(* fails), the run consists of exactly one event, of status 'failed',      *)
(* and no fused recipe is produced.                                        *)
C17_UnresolvedSourceOneFailedEvent ==
    (IsRaised(metadata) /\ pc # "prepare") =>
        /\ Len(events) = 1
        /\ events[1].status = "failed"
        /\ IsNone(final_result)

LowConfidence(result) == result.confidence < 200

(* C18: whenever an extractor fails, the result it returns has a           *)
(* confidence strictly below 0.2: the text failure result, the video       *)
(* download / frame / exception results, the thumbnail failure result,     *)
(* the audio extraction / transcription / exception results and the        *)
(* audio fallback result.                                                  *)
C18_FailedResultsLowConfidence ==
    /\ (HasEvent(1, "completed") /\ text_result = TextFailureResult) =>
          LowConfidence(text_result)
    /\ (HasEvent(2, "completed") /\ ~Get(visual_result, "success", TRUE)) =>
          LowConfidence(visual_result)
    /\ (HasEvent(3, "completed") /\ ~Get(audio_result, "success", TRUE)) =>
          LowConfidence(audio_result)
    /\ pc = "phase2_gate" =>
          /\ \A run \in VideoRuns :
                run.download = "none" =>
                    LowConfidence(_extract_from_visual(run, text_result))
          /\ \A run \in AudioRuns :
                LET r == _extract_from_audio(run, text_result)
                IN  r.source = "audio_fallback" => LowConfidence(r)

(* ---------------------------------------------------------------------- *)
(* Shape of the event sequence                                            *)
(* ---------------------------------------------------------------------- *)
Phases == 1..5

ExitStatuses == {"completed", "failed"}

Count(phase, statuses) ==
    Cardinality({i \in 1..Len(events) :
                    events[i].phase = phase /\ events[i].status \in statuses})

(* C19: for every phase a run enters it yields exactly one 'processing'    *)
(* event for the phase and, later, exactly one 'completed' or 'failed'     *)
(* event for the same phase, also when a step of the phase's work throws;  *)
(* an exit event is never yielded without its 'processing' event before    *)
(* it, and a run that has returned has closed every phase it entered.      *)
C19_OneEntryOneExitPerPhase ==
    \A p \in Phases :
        /\ Count(p, {"processing"}) <= 1
        /\ Count(p, ExitStatuses) <= Count(p, {"processing"})
        /\ \A i \in 1..Len(events) :
              (events[i].phase = p /\ events[i].status \in ExitStatuses) =>
                  \E j \in 1..(i - 1) :
                      events[j].phase = p /\ events[j].status = "processing"
        /\ Finished => Count(p, ExitStatuses) = Count(p, {"processing"})

C19_Witness ==
    /\ Finished
    /\ UnexpectedException(visual_result)
    /\ text_result = TextFailureResult
    /\ \A p \in Phases :
          Count(p, {"processing"}) = 1 /\ Count(p, ExitStatuses) = 1

(* C20: the events of a run come in phase order (text, visual, audio,      *)
(* fusion, refinement): no event of an earlier phase follows an event of   *)
(* a later phase, and no event of a phase precedes its 'processing'        *)
(* event.                                                                  *)
C20_EventsInPhaseOrder ==
    \A i, j \in 1..Len(events) :
        (i < j /\ events[i].phase \in Phases /\ events[j].phase \in Phases) =>
            /\ events[i].phase <= events[j].phase
            /\ ~(events[i].phase = events[j].phase
                 /\ events[j].status = "processing")

C20_Witness ==
    /\ Finished
    /\ Len(events) = 10
    /\ events[1] = Event(1, "processing", 25, None)
    /\ events[3].phase = 2 /\ events[5].phase = 3
    /\ events[7].phase = 4 /\ events[9].phase = 5
    /\ events[10].status = "completed"

(* ---------------------------------------------------------------------- *)
(* Source participation, sub-task isolation, fused confidence             *)
(* ---------------------------------------------------------------------- *)
InSeq(x, s) == \E i \in 1..Len(s) : s[i] = x

(* A source as handed to the fusion service is eligible when it is not     *)
(* None and its own confidence is above the inclusion threshold of 0.3.    *)
Eligible(result) == ~IsNone(result) /\ Get(result, "confidence", 0) > 300

(* C21: in the fusion of a run, a source is in the fusion context and in   *)
(* dataSources exactly when it was handed over (not None) and, for audio   *)
(* and visual, its own confidence is strictly above 0.3; text is always    *)
(* in both.                                                                *)
C21_SourceParticipatesIffEligible ==
    ~IsNone(final_result) =>
        LET context ==
                _prepare_fusion_context(text_result, FusionAudio, FusionVisual)
            used == final_result.dataSources
        IN  /\ "text" \in DOMAIN context /\ InSeq("text", used)
            /\ ("audio" \in DOMAIN context) = Eligible(FusionAudio)
            /\ InSeq("audio", used) = Eligible(FusionAudio)
            /\ ("visual" \in DOMAIN context) = Eligible(FusionVisual)
            /\ InSeq("visual", used) = Eligible(FusionVisual)

(* C22: the five fusion sub-tasks are isolated: whatever the endpoints     *)
(* answer, the value of every sub-task that did not fail is the value of   *)
(* its field in the returned recipe, also when another sub-task and its    *)
(* fallback helper failed.                                                 *)
C22_SubTasksIsolated ==
    pc = "phase4" =>
        \A resp \in FusionResponses :
            LET context == _prepare_fusion_context(
                               text_result, FusionAudio, FusionVisual)
                title == _extract_recipe_title_with_ai(context, resp)
                category == _extract_category_with_ai(context, resp)
                difficulty == _extract_difficulty_with_ai(context, resp)
                cookingTime == _extract_cooking_time_with_ai(context, resp)
                ingredients == _extract_ingredients_with_ai(context, resp)
                r == fuse_multimodal_data_with_ai(
                         text_result, FusionAudio, FusionVisual, resp)
            IN  /\ ~IsRaised(title) => r.title = title.val
                /\ ~IsRaised(category) => r.category = category.val
                /\ ~IsRaised(difficulty) => r.difficulty = difficulty.val
                /\ ~IsRaised(cookingTime) => r.cookingTime = cookingTime.val
                /\ ~IsRaised(ingredients) => r.ingredients = ingredients.val

(* The confidence of a source as the fusion reads it from the result       *)
(* handed over.                                                            *)
SourceConfidence(source) ==
    CASE source = "text" -> Get(text_result, "confidence", 600)
      [] source = "audio" -> Get(FusionAudio, "confidence", 500)
      [] source = "visual" -> Get(FusionVisual, "confidence", 400)

SpecWeight(source) ==
    CASE source = "text" -> 600
      [] source = "audio" -> 300
      [] source = "visual" -> 100

RECURSIVE SumOver(_, _)
SumOver(used, withConfidence) ==
    IF used = <<>> THEN 0
    ELSE SpecWeight(Head(used))
            * (IF withConfidence THEN SourceConfidence(Head(used)) ELSE 1)
         + SumOver(Tail(used), withConfidence)

ExpectedFusedConfidence(recipe) ==
    LET used == recipe.dataSources
        B == SumOver(used, TRUE) \div SumOver(used, FALSE)
        n == Len(used)
        completeness ==
              (IF TitleLen(recipe.title) > 5 THEN 50 ELSE 0)
            + (IF Len(recipe.ingredients) >= 3 THEN 50 ELSE 0)
            + (IF Truthy(recipe.category) THEN 30 ELSE 0)
            + (IF recipe.cookingTime > 0 THEN 20 ELSE 0)
    IN  Min(950, B + 150 + Min(50 * n, 150) + completeness)

(* C23: on the non-fallback path the fused confidence is                   *)
(* min(0.95, B + 0.15 + min(0.05 n, 0.15) + C): B the weight-normalised    *)
(* average of the participating sources' confidences (weights 0.60, 0.30,  *)
(* 0.10), n their number, C the completeness bonuses (in thousandths).     *)
C23_FusedConfidenceFormula ==
    (~IsNone(final_result) /\ final_result.fusionMethod = "ai_weighted") =>
        final_result.confidence = ExpectedFusedConfidence(final_result)

(* A fusion of text and audio whose confidence stays below the cap.        *)
C23_Witness ==
    /\ ~IsNone(final_result)
    /\ final_result.fusionMethod = "ai_weighted"
    /\ final_result.dataSources = <<"text", "audio">>
    /\ text_result.confidence # audio_result.confidence
    /\ final_result.confidence < 950

(* ---------------------------------------------------------------------- *)
(* Shape of the fused recipe                                              *)
(* ---------------------------------------------------------------------- *)
RecipeFields ==
    {"title", "category", "difficulty", "cookingTime", "ingredients",
     "instructions", "dietaryInfo", "tags"}

(* C24: every recipe the fusion returns is fully populated: title,         *)
(* category, difficulty, cookingTime, ingredients, instructions, dietary   *)
(* tags and tags are all there with a non-null value, together with a      *)
(* confidence and data sources drawn from text, visual and audio, on the   *)
(* normal and on the fallback path.  (The timestamp, read from the clock   *)
(* on both paths, is left out of the records.)                             *)
C24_FusedRecipeFullyPopulated ==
    ~IsNone(final_result) =>
        /\ RecipeFields \cup {"confidence", "dataSources"}
              \subseteq DOMAIN final_result
        /\ Get(final_result, "title", NoneStr) # NoneStr
        /\ Get(final_result, "category", NoneStr) # NoneStr
        /\ Get(final_result, "difficulty", NoneStr) # NoneStr
        /\ Get(final_result, "cookingTime", NoneInt) # NoneInt
        /\ \A i \in 1..Len(final_result.dataSources) :
              final_result.dataSources[i] \in {"text", "visual", "audio"}

(* ---------------------------------------------------------------------- *)
(* Fused ingredient list                                                  *)
(* ---------------------------------------------------------------------- *)
Range(s) == {s[i] : i \in 1..Len(s)}

(* Source results the ingredient combination can be handed: keyword lists  *)
(* of the text scan, transcripts, detected labels, with audio and visual   *)
(* there or not.                                                           *)
IngredientTextResults ==
    [ingredients : {Prefix(ingredient_keywords, n) : n \in {0, 3, 7, 12}},
     confidence : {600}]

IngredientAudioResults ==
    {None} \cup
    [transcription : {"", "add the garlic", "Add the Garlic",
                      "this cake recipe is sweet"},
     confidence : {200, 550}]

IngredientVisualResults ==
    {None} \cup
    [visualIngredients : {Prefix(food_labels, n) : n \in 0..4},
     confidence : {100, 500}]

(* What the claim asks of the list `fused` built from `context`.           *)
IsOrderedUnion(context, fused) ==
    LET a == IF "text" \in DOMAIN context
             THEN context["text"].data.extracted_ingredients ELSE <<>>
        b == IF "audio" \in DOMAIN context
             THEN _extract_ingredients_from_text_simple(
                      context["audio"].data.transcription)
             ELSE <<>>
        c == IF "visual" \in DOMAIN context
             THEN context["visual"].data.visual_ingredients ELSE <<>>
        Rank(x) == IF \E y \in Range(a) : Lower(y) = Lower(x) THEN 1
                   ELSE IF \E y \in Range(b) : Lower(y) = Lower(x) THEN 2
                   ELSE 3
    IN  /\ Len(fused) <= 12
        /\ \A i, j \in 1..Len(fused) :
              i # j => Lower(fused[i]) # Lower(fused[j])
        /\ Range(fused) \subseteq Range(a) \cup Range(b) \cup Range(c)
        /\ Len(fused) < 12 =>
              \A x \in Range(a) \cup Range(b) \cup Range(c) :
                  \E i \in 1..Len(fused) : Lower(fused[i]) = Lower(x)
        /\ Prefix(fused, Len(a)) = a
        /\ \A i, j \in 1..Len(fused) :
              i < j => Rank(fused[i]) <= Rank(fused[j])

(* C25: the list _fallback_ingredients builds is the union of the          *)
(* participating sources' ingredients, text items first, then the          *)
(* audio-derived ones, then the visual ones, without two entries that are  *)
(* equal up to letter case, and with at most 12 entries: for the bounded   *)
(* source results above and for the results of every run.                  *)
C25_FallbackIngredientsOrderedUnion ==
    /\ pc = "prepare" =>
          \A t \in IngredientTextResults, a \in IngredientAudioResults,
             v \in IngredientVisualResults :
              LET context == _prepare_fusion_context(t, a, v)
              IN  IsOrderedUnion(context, _fallback_ingredients(context).val)
    /\ pc = "phase4" =>
          LET context == _prepare_fusion_context(
                             text_result, FusionAudio, FusionVisual)
          IN  IsOrderedUnion(context, _fallback_ingredients(context).val)

(* All three sources take part and both the transcript and the frames      *)
(* name garlic, which the fused list holds once.                           *)
C25_Witness ==
    /\ pc = "phase4"
    /\ LET context == _prepare_fusion_context(
                          text_result, FusionAudio, FusionVisual)
           fused == _fallback_ingredients(context).val
       IN  /\ DOMAIN context = {"text", "audio", "visual"}
           /\ context["text"].data.extracted_ingredients # <<>>
           /\ context["audio"].data.transcription = "add the garlic"
           /\ Len(context["visual"].data.visual_ingredients) = 4
           /\ Len(fused) = 11

(* ---------------------------------------------------------------------- *)
(* Concurrent runs and their temporary media files                        *)
(* ---------------------------------------------------------------------- *)
(* Largest value of the millisecond clock.                                 *)
MaxClock == 1

(* VideoProcessor._download_video_temp: f"/tmp/video_{timestamp}.mp4".     *)
video_output_path(timestamp) == [prefix |-> "/tmp/video_", ts |-> timestamp]

(* ProductionAudioProcessor._download_video_temp:                          *)
(* f"/tmp/video_audio_{timestamp}.mp4".                                    *)
audio_output_path(timestamp) ==
    [prefix |-> "/tmp/video_audio_", ts |-> timestamp]

FileAt(path) == {f \in tmp_dir : f.path = path}

Exists(path) == FileAt(path) # {}

Writer(path) == (CHOOSE f \in FileAt(path) : TRUE).writer

unlink(path) == tmp_dir \ FileAt(path)

(* The visual phase (1) is followed by the audio phase (2).                *)
NextPhase(run) ==
    IF run.phase = 1
    THEN [pc |-> "start", phase |-> 2, path |-> NoPath, saw |-> NoneInt]
    ELSE [run EXCEPT !.pc = "done"]

ConcurrentInit ==
    /\ request = [enable_visual_analysis |-> TRUE,
                  enable_audio_transcription |-> TRUE,
                  max_processing_time |-> 30]
    /\ metadata = [thumbnailUrl |-> "thumb.jpg"]
    /\ http_status = 200
    /\ tmp_files = {}
    /\ instagram_url = "https://www.instagram.com/reel/x"
    /\ thumbnail_url = "thumb.jpg"
    /\ video_url = "https://www.instagram.com/reel/x"
    /\ client = "client"
    /\ pc = "concurrent"
    /\ events = <<>>
    /\ text_result = None
    /\ visual_result = None
    /\ audio_result = None
    /\ final_result = None
    /\ mistral_result = None
    /\ now = 0
    /\ tmp_dir = {}
    /\ runs = [r \in Runs |->
                  [pc |-> "start", phase |-> 1, path |-> NoPath, saw |-> NoneInt]]

ConcurrentUnchanged ==
    UNCHANGED <<request, metadata, http_status, tmp_files, instagram_url,
                thumbnail_url, video_url, client, pc, events, text_result,
                visual_result, audio_result, final_result, mistral_result>>

(* time.time() moves on between two steps.                                 *)
Tick ==
    /\ now < MaxClock
    /\ now' = now + 1
    /\ UNCHANGED <<tmp_dir, runs>>
    /\ ConcurrentUnchanged

(* _download_video_temp up to the await of the yt-dlp thread: the output   *)
(* path is named by the current millisecond.                               *)
StartDownload(r) ==
    /\ runs[r].pc = "start"
    /\ runs' = [runs EXCEPT
                  ![r].pc = "downloading",
                  ![r].path = IF runs[r].phase = 1
                              THEN video_output_path(now)
                              ELSE audio_output_path(now)]
    /\ UNCHANGED <<now, tmp_dir>>
    /\ ConcurrentUnchanged

(* The yt-dlp thread writes the output file, replacing a file of that name *)
(* ('overwrites': True).                                                   *)
DownloadWrites(r) ==
    /\ runs[r].pc = "downloading"
    /\ tmp_dir' = unlink(runs[r].path)
                     \cup {[path |-> runs[r].path, writer |-> r]}
    /\ runs' = [runs EXCEPT ![r].pc = "written"]
    /\ UNCHANGED now
    /\ ConcurrentUnchanged

(* yt-dlp raises: the except branch unlinks the output path if a file is   *)
(* there and the phase ends with its failure result.                       *)
DownloadFails(r) ==
    /\ runs[r].pc = "downloading"
    /\ tmp_dir' = unlink(runs[r].path)
    /\ runs' = [runs EXCEPT ![r] = NextPhase(runs[r])]
    /\ UNCHANGED now
    /\ ConcurrentUnchanged

(* The coroutine resumes after the download: a missing file ends the       *)
(* phase; otherwise the file is opened and read (frames, or the ffmpeg     *)
(* input), and frames that cannot be read end the visual phase with the    *)
(* file left in place.                                                     *)
ReadFile(r) ==
    /\ runs[r].pc = "written"
    /\ \E readable \in BOOLEAN :
        IF ~Exists(runs[r].path)
        THEN runs' = [runs EXCEPT ![r] = NextPhase(runs[r])]
        ELSE IF ~readable /\ runs[r].phase = 1
        THEN runs' = [runs EXCEPT
                        ![r] = NextPhase([runs[r] EXCEPT
                                            !.saw = Writer(runs[r].path)])]
        ELSE runs' = [runs EXCEPT ![r].pc = "analysing",
                                  ![r].saw = Writer(runs[r].path)]
    /\ UNCHANGED <<now, tmp_dir>>
    /\ ConcurrentUnchanged

(* os.unlink(video_path) after the awaited analysis steps.                 *)
Cleanup(r) ==
    /\ runs[r].pc = "analysing"
    /\ tmp_dir' = unlink(runs[r].path)
    /\ runs' = [runs EXCEPT ![r] = NextPhase(runs[r])]
    /\ UNCHANGED now
    /\ ConcurrentUnchanged

ConcurrentNext ==
    \/ Tick
    \/ \E r \in Runs : StartDownload(r)
    \/ \E r \in Runs : DownloadWrites(r)
    \/ \E r \in Runs : DownloadFails(r)
    \/ \E r \in Runs : ReadFile(r)
    \/ \E r \in Runs : Cleanup(r)

ConcurrentSpec == ConcurrentInit /\ [][ConcurrentNext]_vars

(* C26: two concurrent runs share no temporary file: from the moment a     *)
(* run's download has written its file until the run unlinks it, the file  *)
(* at the run's path is there and is the one this run wrote, and the file  *)
(* a run reads is its own, for every interleaving of the runs' steps.      *)
C26_RunsShareNoTempFile ==
    \A r \in Runs :
        /\ runs[r].pc \in {"written", "analysing"} =>
              /\ Exists(runs[r].path)
              /\ Writer(runs[r].path) = r
        /\ runs[r].saw \in {NoneInt, r}

(* ---------------------------------------------------------------------- *)
(* Failed events                                                          *)
(* ---------------------------------------------------------------------- *)
FailedEvents == {i \in 1..Len(events) : events[i].status = "failed"}

(* The exit events of a phase are those that carry the phase's result.     *)
ExitEvents ==
    {i \in 1..Len(events) :
        events[i].phase \in Phases /\ ~IsNone(events[i].data)}

(* C27: a run yields at most one event with status 'failed'; it is the     *)
(* catch-all event with phase 'error' and nothing is yielded after it;     *)
(* every exit event of phases 1 to 5 has status 'completed', also when     *)
(* the result it carries reports success False.                            *)
C27_OnlyCatchAllFails ==
    /\ Cardinality(FailedEvents) <= 1
    /\ \A i \in FailedEvents :
          /\ events[i].phase = PhaseError
          /\ i = Len(events)
    /\ \A i \in 1..Len(events) :
          events[i].phase \in Phases =>
              events[i].status \in {"processing", "completed"}
    /\ \A i \in ExitEvents : events[i].status = "completed"

(* The video download failed, phase 2 still exits 'completed'.             *)
C27_Witness ==
    \E i \in ExitEvents :
        /\ events[i].phase = 2
        /\ events[i].status = "completed"
        /\ ~events[i].data.success
        /\ events[i].data.error = "Video download failed"

(* ---------------------------------------------------------------------- *)
(* The SSE stream: generate_extraction_stream                             *)
(* ---------------------------------------------------------------------- *)
(* A pipeline event as it is sent: the event's fields with user and url    *)
(* added, serialised into a data line.                                     *)
event_data(result) ==
    [event |-> "pipeline", url |-> instagram_url, result |-> result]

completion_event ==
    [event |-> "extraction_completed", url |-> instagram_url, total_phases |-> 4]

error_event == [event |-> "extraction_error", url |-> instagram_url]

(* The stream without its trailing event after a run that ended with a     *)
(* 'failed' event.                                                         *)
generate_extraction_stream_unterminated(results, finished, raises_at) ==
    LET forwarded(n) == [i \in 1..n |-> event_data(results[i])]
    IN  IF raises_at > 0
        THEN forwarded(raises_at - 1) \o <<error_event>>
        ELSE IF finished /\ results[Len(results)].status # "failed"
        THEN forwarded(Len(results)) \o <<completion_event>>
        ELSE forwarded(Len(results))

(* What the stream has sent when the pipeline has yielded `results`:       *)
(* json.dumps raising on event number raises_at (0: on none) leaves the    *)
(* loop for the except branch; a pipeline that has returned is followed    *)
(* by the completion event.                                                *)
generate_extraction_stream(results, finished, raises_at) ==
    LET forwarded(n) == [i \in 1..n |-> event_data(results[i])]
    IN  IF raises_at > 0
        THEN forwarded(raises_at - 1) \o <<error_event>>
        ELSE IF finished
        THEN forwarded(Len(results)) \o <<completion_event>>
        ELSE forwarded(Len(results))

TrailingEvents(stream) ==
    {i \in 1..Len(stream) : stream[i].event # "pipeline"}

(* C28: the stream forwards the pipeline's events in order and ends with   *)
(* exactly one trailing event: 'extraction_completed' when the pipeline    *)
(* returned without an exception (also after a 'failed' event),            *)
(* 'extraction_error' when an exception was raised; never both, and no     *)
(* pipeline event follows the trailing event.                              *)
C28_StreamEndsWithOneTrailingEvent ==
    \A raises_at \in 0..Len(events) :
        LET stream == generate_extraction_stream(events, Finished, raises_at)
            n == Len(stream)
        IN  /\ Cardinality(TrailingEvents(stream)) <= 1
            /\ TrailingEvents(stream) \subseteq {n}
            /\ \A i \in 1..n :
                  stream[i].event = "pipeline" => stream[i].result = events[i]
            /\ raises_at > 0 =>
                  /\ n = raises_at
                  /\ stream[n].event = "extraction_error"
            /\ (raises_at = 0 /\ Finished) =>
                  /\ n = Len(events) + 1
                  /\ stream[n].event = "extraction_completed"
            /\ (raises_at = 0 /\ ~Finished) =>
                  /\ n = Len(events)
                  /\ TrailingEvents(stream) = {}

(* The run ended with the catch-all 'failed' event and the stream still    *)
(* closes with 'extraction_completed'.                                     *)
C28_Witness ==
    /\ Finished
    /\ LastEvent.status = "failed"
    /\ LET stream == generate_extraction_stream(events, Finished, 0)
       IN  /\ Len(stream) = Len(events) + 1
           /\ stream[Len(stream)].event = "extraction_completed"

(* ---------------------------------------------------------------------- *)
(* Batch mode answers                                                     *)
(* ---------------------------------------------------------------------- *)
(* Event lists the batch handler can have drained: the events of a run     *)
(* that returned, or the events yielded so far followed by the catch-all   *)
(* 'failed' event of a run that broke off at this point.                   *)
DrainedResults ==
    IF Finished THEN {events}
    ELSE IF pc \in {"prepare", "rejected"} THEN {}
    ELSE {events \o <<ErrorEvent>>}

CompletedWithData(results) ==
    {i \in 1..Len(results) :
        results[i].status = "completed" /\ ~IsNone(results[i].data)}

(* C29: the batch handler answers HTTP 500 only when the drained events    *)
(* hold no 'completed' event with data; otherwise it answers success with  *)
(* the data of the phase-4 'completed' event when there is one and else    *)
(* of the latest 'completed' event, also when the last event is 'failed'.  *)
C29_BatchFailsOnlyWithoutCompleted ==
    \A results \in DrainedResults :
        LET answer == extract_multimodal_batch(results)
            completed == CompletedWithData(results)
            fused == {i \in completed : results[i].phase = 4}
        IN  /\ answer.status_code \in {200, 500}
            /\ (answer.status_code = 500) = (completed = {})
            /\ completed # {} =>
                  answer.recipe =
                      results[LastOf(IF fused # {} THEN fused
                                     ELSE completed)].data

(* A run that broke off after fusion: the last event is 'failed' and the   *)
(* handler still answers success with the fused recipe.                    *)
C29_Witness ==
    /\ pc = "phase5"
    /\ \E results \in DrainedResults :
          /\ results[Len(results)].status = "failed"
          /\ extract_multimodal_batch(results).status_code = 200
          /\ extract_multimodal_batch(results).recipe = final_result

(* ---------------------------------------------------------------------- *)
(* Data sources of the fusion result                                      *)
(* ---------------------------------------------------------------------- *)
(* C30: the dataSources of a run's fusion result always hold 'text'; they  *)
(* hold 'visual' only if a thumbnail_url was passed to extract_progressive *)
(* and the visual confidence is above 0.3, and 'audio' only if a video_url *)
(* was passed and the audio confidence is above 0.3, whether or not        *)
(* phases 2 and 3 ran and whatever they returned.                          *)
C30_DataSourcesFollowArguments ==
    ~IsNone(final_result) =>
        /\ InSeq("text", final_result.dataSources)
        /\ InSeq("visual", final_result.dataSources) =>
              /\ Truthy(thumbnail_url)
              /\ Get(visual_result, "confidence", 0) > 300
        /\ InSeq("audio", final_result.dataSources) =>
              /\ Truthy(video_url)
              /\ Get(audio_result, "confidence", 0) > 300

(* The visual phase ran and was confident, but no thumbnail_url was        *)
(* passed: the fusion used text and audio only.                            *)
C30_Witness ==
    /\ ~IsNone(final_result)
    /\ thumbnail_url = NoneStr
    /\ HasEvent(2, "completed")
    /\ visual_result.confidence > 300
    /\ final_result.dataSources = <<"text", "audio">>

====
